---- MODULE Spec2Model ----
(***************************************************************************)
(* Model of whatsapp-mcp-server/api.py: the realtime registry and          *)
(* broadcaster (/ws/messages, broadcast_message) and the analysis          *)
(* dispatcher (/analyze/query) together with claude.py's analyzer.         *)
(***************************************************************************)
EXTENDS Integers, Sequences, FiniteSets, TLC

(***************************************************************************)
(* Bounds                                                                  *)
(***************************************************************************)
NumClients == 3      \* listeners that may open /ws/messages
MaxTexts == 1        \* texts received from all listeners together
NumFairClients == 2  \* listeners followed by the liveness specification
MaxBroadcasts == 2   \* broadcast_message calls

MaxMsgs == 2         \* messages list_messages returns to one request

Clients == 1..NumClients
Payloads == 1..MaxBroadcasts   \* the k-th broadcast carries message_data k
NoClient == 0

VARIABLES
    connected_clients,  \* api.py:993   the process-wide set of websockets
    wsPc,               \* position of each websocket_messages handler
    texts,              \* texts returned by receive_text so far, all listeners together
    owed,               \* per listener: texts received from it less pong send_text calls to it
    bcPc,               \* position of broadcast_message
    bcId,               \* number of broadcast_message calls started
    bcData,             \* message_data of the running broadcast
    bcCur,              \* client whose send_text is awaited
    itUsed,             \* set iterator: size of the set when iter() was taken
    itRemaining,        \* set iterator: entries still ahead of the cursor
    bcLog,              \* send_text calls completed by the running broadcast, per target
    bcStart,            \* registry when the running broadcast started
    bcDisturbed,        \* a handler changed the registry during that broadcast
    prevFailed,         \* registered clients whose send failed in an earlier broadcast
    anPc,               \* position of the analysis request (/analyze/...)
    request,            \* its request model or parameters
    store,              \* what list_messages did for it
    llm,                \* state of the completion capability for it
    response,           \* what the endpoint answered
    clock               \* what its reads of datetime.now() returned, in order

wsVars == <<connected_clients, wsPc, texts, owed, bcPc, bcId, bcData, bcCur,
            itUsed, itRemaining, bcLog, bcStart, bcDisturbed, prevFailed>>

anVars == <<anPc, request, store, llm, response, clock>>

vars == <<wsVars, anVars>>

(***************************************************************************)
(* Events (api.py:1012, api.py:1026-1029)                                  *)
(***************************************************************************)
PongEvent == [type |-> "pong"]

MessageEventUntagged(message_data) == [type |-> "pong", data |-> message_data]

MessageEvent(message_data) == [type |-> "message", data |-> message_data]

(***************************************************************************)
(* set.discard (api.py:1016): removes the entry when present, never raises *)
(***************************************************************************)
SetDiscardKeep(S, c) == [set |-> S, raised |-> FALSE]

\* set.remove: raises KeyError when the entry is absent
SetRemove(S, c) == [set |-> S \ {c}, raised |-> c \notin S]

SetDiscard(S, c) == [set |-> S \ {c}, raised |-> FALSE]

\* set.add (api.py:1004)
SetAdd(S, c) == S \cup {c}

\* The websocket a handler answers on (api.py:1012: websocket.send_text)
PongTargetsAll(c) == connected_clients

PongTargets(c) == {c}

\* The except clause of broadcast_message (api.py:1030-1031): it only prints.
BroadcastExceptReraise(S, c) == [registry |-> S, outcome |-> "raise"]

BroadcastExceptEvict(S, c) == [registry |-> S \ {c}, outcome |-> "continue"]

BroadcastExcept(S, c) == [registry |-> S, outcome |-> "continue"]

\* A handler between its connected_clients.add and its finally clause; the
\* "_hungup" positions are those of a handler whose peer has closed the
\* connection and which has not yet been resumed with the error.
Live(c) == wsPc[c] \in {"receiving", "ponging", "receiving_hungup", "ponging_hungup"}

\* broadcast_message is awaited by its caller: its return (or exception) and
\* the caller's continuation are one step of the event loop, so no handler
\* runs in between.
LoopFree == bcPc \in {"idle", "sending"}

NoEvent == [type |-> "none"]
EmptyLog == [c \in Clients |-> [calls |-> 0, ok |-> 0, frame |-> NoEvent]]

RECURSIVE SumOver(_, _)
SumOver(f, S) == IF S = {} THEN 0
                 ELSE LET x == CHOOSE y \in S : TRUE IN f[x] + SumOver(f, S \ {x})

AttemptedIn(log) == {c \in Clients : log[c].calls > 0}
FailedIn(log) == {c \in Clients : log[c].calls > log[c].ok}
CallsIn(log) == SumOver([c \in Clients |-> log[c].calls], Clients)

(***************************************************************************)
(* Values of the analysis endpoints                                        *)
(***************************************************************************)
None == "<None>"            \* Python None, for optional str fields
NoneT == <<"<None>">>       \* Python None, for fields modelled as character sequences

\* Python truthiness of an Optional[str]
Truthy(s) == s \notin {None, ""}
TruthyT(t) == t \notin {NoneT, <<>>}

NowIso == "2024-06-15T12:00:00"          \* datetime.now().isoformat()
WeekAgoIso == "2024-06-08T12:00:00"      \* (datetime.now() - timedelta(days=7)).isoformat()

\* datetime.fromisoformat followed by strftime('%Y-%m-%d'): the calendar day of
\* a well-formed ISO-8601 string; ValueError for any other string.
IsoDays == [s \in {"2024-01-01T10:30:00", "2024-01-08", "2024-01-08T23:59:59.999999",
                    NowIso, WeekAgoIso} |->
               CASE s = "2024-01-01T10:30:00" -> "2024-01-01"
                 [] s = "2024-01-08" -> "2024-01-08"
                 [] s = "2024-01-08T23:59:59.999999" -> "2024-01-08"
                 [] s = NowIso -> "2024-06-15"
                 [] s = WeekAgoIso -> "2024-06-08"]

IsoValid(s) == s \in DOMAIN IsoDays

fromisoformat(s) == IF IsoValid(s) THEN [ok |-> TRUE, day |-> IsoDays[s]]
                    ELSE [ok |-> FALSE, day |-> ""]

\* A naive datetime: the day as its ordinal within 2024 and the time of day
datetime(ord, hour, minute, second, microsecond) ==
    [ord |-> ord, hour |-> hour, minute |-> minute, second |-> second,
     microsecond |-> microsecond]

\* datetime.fromisoformat as a datetime
IsoInstants == [s \in DOMAIN IsoDays |->
                   CASE s = "2024-01-01T10:30:00" -> datetime(1, 10, 30, 0, 0)
                     [] s = "2024-01-08" -> datetime(8, 0, 0, 0, 0)
                     [] s = "2024-01-08T23:59:59.999999" -> datetime(8, 23, 59, 59, 999999)
                     [] s = NowIso -> datetime(167, 12, 0, 0, 0)
                     [] s = WeekAgoIso -> datetime(160, 12, 0, 0, 0)]

\* What datetime.now() may return to a summary endpoint: noon, the next
\* microsecond, the day's last microsecond and the following midnight
ClockInstants == {datetime(167, 12, 0, 0, 0), datetime(167, 12, 0, 0, 1),
                  datetime(167, 23, 59, 59, 999999), datetime(168, 0, 0, 0, 0)}

\* strftime('%Y-%m-%d')
OrdDay == [o \in {1, 8, 167, 168} |->
              CASE o = 1 -> "2024-01-01"
                [] o = 8 -> "2024-01-08"
                [] o = 167 -> "2024-06-15"
                [] o = 168 -> "2024-06-16"]

strftime(t) == OrdDay[t.ord]

SecondOfDay(t) == t.hour * 3600 + t.minute * 60 + t.second

\* a <= b on datetimes
NotAfter(a, b) ==
    \/ a.ord < b.ord
    \/ /\ a.ord = b.ord
       /\ \/ SecondOfDay(a) < SecondOfDay(b)
          \/ SecondOfDay(a) = SecondOfDay(b) /\ a.microsecond <= b.microsecond

\* b - a as Python's normalised timedelta: 0 <= seconds < 86400,
\* 0 <= microseconds < 1000000
timedelta(days, seconds, microseconds) ==
    [days |-> days, seconds |-> seconds, microseconds |-> microseconds]

Minus(b, a) ==
    LET du == b.microsecond - a.microsecond
        ds == SecondOfDay(b) - SecondOfDay(a) - (IF du < 0 THEN 1 ELSE 0)
        dd == b.ord - a.ord - (IF ds < 0 THEN 1 ELSE 0)
    IN timedelta(dd, IF ds < 0 THEN ds + 86400 ELSE ds,
                 IF du < 0 THEN du + 1000000 ELSE du)

\* t - timedelta(days=d)
MinusDays(t, d) == [t EXCEPT !.ord = @ - d]

\* datetime.isoformat(): the microseconds are written only when not zero
isoformat(t) ==
    <<t.ord, t.hour, t.minute, t.second>>
        \o (IF t.microsecond = 0 THEN <<>> ELSE <<t.microsecond>>)

\* str.lower on the characters used here
LowerChar(ch) == CASE ch = "A" -> "a" [] ch = "B" -> "b" [] OTHER -> ch
Lower(t) == [i \in 1..Len(t) |-> LowerChar(t[i])]

\* Python's `f in s` on strings
Contains(s, f) == \E i \in 0..(Len(s) - Len(f)) : SubSeq(s, i + 1, i + Len(f)) = f

Senders == {<<"5", "1", "@">>, <<"5", "9", "@">>}
ChatNames == {NoneT, <<"A", "b">>}
MediaTypes == {None, "image"}
Messages == [sender : Senders, chat_name : ChatNames, media_type : MediaTypes]

RECURSIVE SeqsUpTo(_, _)
SeqsUpTo(S, n) == IF n <= 0 THEN {<<>>}
                  ELSE LET shorter == SeqsUpTo(S, n - 1)
                       IN shorter \cup {Append(q, x) : q \in {r \in shorter : Len(r) = n - 1}, x \in S}

\* The query types the dispatcher of the design names
ClosedQueryTypes == {"summarize", "topics", "sentiment", "action_items", "custom",
                     "semantic_search"}

Requests == [after : {None, "2024-01-01T10:30:00", "garbage"},
             before : {None, "2024-01-08", "garbage"},
             contact_name : {NoneT, <<"a", "B">>},
             contact_phone : {NoneT, <<"5", "1">>},
             media_only : BOOLEAN,
             query_type : ClosedQueryTypes \cup {"bogus"},
             custom_query : {None, "", "What was decided?"},
             max_messages : {0, MaxMsgs}]

NoRequest == [after |-> None, before |-> None, contact_name |-> NoneT,
              contact_phone |-> NoneT, media_only |-> FALSE, query_type |-> "summarize",
              custom_query |-> None, max_messages |-> 0]

\* The call of list_messages one request made, if it made one
NoCall == [made |-> FALSE, after |-> None, before |-> None, limit |-> 0]

\* The time window a summary endpoint resolved, if it resolved one
NoWindow == [resolved |-> FALSE]

\* AnalyzeResponse.metadata when it is None
NoMetadata == [absent |-> TRUE]

\* The prompt handed to the completion capability, if one was
NoPrompt == [sent |-> FALSE]

NoResponse == [status |-> 0, detail |-> "", query_type |-> "", period |-> "",
               messages_analyzed |-> 0, analysis |-> "", list_call |-> NoCall,
               instruction |-> "", analysed |-> <<>>, completions |-> 0,
               window |-> NoWindow, metadata |-> NoMetadata, prompt |-> NoPrompt]

WellFormedDates(r) == /\ Truthy(r.after) => IsoValid(r.after)
                      /\ Truthy(r.before) => IsoValid(r.before)

\* list_messages of the external store, as the request sees it: it fails as
\* a service, rejects a malformed date with ValueError, or returns at most
\* `limit` messages.
StoreOutcomes(r) ==
    {[kind |-> "Exception", messages |-> <<>>]}
    \cup (IF WellFormedDates(r) THEN {} ELSE {[kind |-> "ValueError", messages |-> <<>>]})
    \cup {[kind |-> "ok", messages |-> m] : m \in SeqsUpTo(Messages, r.max_messages)}

\* What the store may hold, newest first, of messages matching the coarse
\* criteria, given what list_messages returned under `limit`: all of it when
\* fewer than `limit` came back, otherwise possibly one older message more.
StoreContents(st, limit) ==
    IF Len(st.messages) < limit
    THEN {st.messages}
    ELSE {st.messages} \cup {Append(st.messages, m) : m \in Messages}

\* The completion capability as one request finds it: it answers, its call
\* raises (an Exception, or one that is a ValueError, such as a decoding
\* error), or ANTHROPIC_API_KEY is not set.
LlmStates == {"ok", "fails", "fails_value_error", "no_api_key"}

\* DailySummaryRequest (api.py:173-176)
DailyRequests == [date : {None, "2024-01-08", "2024-01-01T10:30:00",
                          "2024-01-08T23:59:59.999999", "garbage"},
                  include_media : BOOLEAN]

\* The parameters of contact_summary (api.py:869-871)
Days == {-1, 7}
ContactRequests == [jid : {"51@s"}, days : Days, include_media : BOOLEAN]

\* SemanticSearchRequest (api.py:186-192); search_query has no default
SearchRequests == [search_query : {None, "", "meetings"},
                   after : {None, "2024-01-01T10:30:00", "garbage"},
                   before : {None, "2024-01-08", "garbage"},
                   max_messages : {0, MaxMsgs}]

\* What list_messages does for the fixed limit=200 of the summary endpoints
\* (api.py:836, api.py:894)
SummaryStoreOutcomes ==
    {[kind |-> "Exception", messages |-> <<>>]}
    \cup {[kind |-> "ok", messages |-> m] : m \in SeqsUpTo(Messages, MaxMsgs)}

\* The criteria the in-memory refinement reads (api.py:754-760), and the
\* limit the retrieval before it was given (api.py:747)
RefineCriteria == [contact_name : {NoneT, <<"a", "B">>},
                   contact_phone : {NoneT, <<"5", "1">>},
                   media_only : BOOLEAN,
                   max_messages : {0, MaxMsgs}]

WsInit ==
    /\ connected_clients = {}
    /\ wsPc = [c \in Clients |-> "accepting"]
    /\ texts = 0
    /\ owed = [c \in Clients |-> 0]
    /\ bcPc = "idle"
    /\ bcId = 0
    /\ bcData = 0
    /\ bcCur = NoClient
    /\ itUsed = 0
    /\ itRemaining = {}
    /\ bcLog = EmptyLog
    /\ bcStart = {}
    /\ bcDisturbed = FALSE
    /\ prevFailed = {}

Init ==
    /\ WsInit
    /\ anPc = "idle"
    /\ request = NoRequest
    /\ store = [kind |-> "ok", messages |-> <<>>]
    /\ llm = "ok"
    /\ response = NoResponse
    /\ clock = <<>>

bcFrame == <<bcPc, bcId, bcData, bcCur, itUsed, bcLog, bcStart>>

(***************************************************************************)
(* websocket_messages (api.py:996-1016)                                    *)
(***************************************************************************)
\* accept() returns; the handler registers the websocket and awaits
\* receive_text().  A running set iterator sees the insertion: the new entry
\* lands, by its hash, before or after the iterator's cursor.
WsAccept(c) ==
    /\ UNCHANGED anVars
    /\ LoopFree
    /\ wsPc[c] = "accepting"
    /\ connected_clients' = SetAdd(connected_clients, c)
    /\ wsPc' = [wsPc EXCEPT ![c] = "receiving"]
    /\ itRemaining' \in IF bcPc = "sending"
                         THEN {itRemaining, itRemaining \cup {c}}
                         ELSE {itRemaining}
    /\ bcDisturbed' = (bcDisturbed \/ bcPc = "sending")
    /\ UNCHANGED <<texts, owed, bcFrame, prevFailed>>

\* accept() raises: it is outside the try, so nothing is registered or removed.
WsAcceptFail(c) ==
    /\ UNCHANGED anVars
    /\ LoopFree
    /\ wsPc[c] = "accepting"
    /\ wsPc' = [wsPc EXCEPT ![c] = "rejected"]
    /\ UNCHANGED <<connected_clients, texts, owed, bcFrame, itRemaining, bcDisturbed,
                   prevFailed>>

\* The finally clause: connected_clients.discard(websocket), then return.
WsFinally(c) ==
    LET r == SetDiscard(connected_clients, c) IN
    /\ connected_clients' = r.set
    /\ wsPc' = [wsPc EXCEPT ![c] = IF r.raised THEN "crashed" ELSE "closed"]
    /\ itRemaining' = itRemaining \ {c}
    /\ prevFailed' = prevFailed \ {c}
    /\ bcDisturbed' = (bcDisturbed \/ (bcPc = "sending" /\ r.set # connected_clients))

\* receive_text() returns a text; the handler calls send_text(pong).
WsReceiveText(c) ==
    /\ UNCHANGED anVars
    /\ LoopFree
    /\ wsPc[c] = "receiving"
    /\ texts < MaxTexts
    /\ texts' = texts + 1
    /\ owed' = [owed EXCEPT ![c] = @ + 1]
    /\ wsPc' = [wsPc EXCEPT ![c] = "ponging"]
    /\ UNCHANGED <<connected_clients, bcFrame, itRemaining, bcDisturbed, prevFailed>>

\* receive_text() raises (disconnect, non-text frame, cancellation).
WsReceiveFail(c) ==
    /\ UNCHANGED anVars
    /\ LoopFree
    /\ wsPc[c] \in {"receiving", "receiving_hungup"}
    /\ WsFinally(c)
    /\ UNCHANGED <<texts, owed, bcFrame>>

\* send_text(json.dumps({"type": "pong"})) completes, successfully or not.
WsSendPong(c, ok) ==
    /\ UNCHANGED anVars
    /\ LoopFree
    /\ wsPc[c] \in {"ponging", "ponging_hungup"}
    /\ owed' = [t \in Clients |-> IF t \in PongTargets(c) THEN owed[t] - 1 ELSE owed[t]]
    /\ IF ok
       THEN /\ wsPc' = [wsPc EXCEPT ![c] = IF wsPc[c] = "ponging" THEN "receiving"
                                           ELSE "receiving_hungup"]
            /\ UNCHANGED <<connected_clients, itRemaining, bcDisturbed, prevFailed>>
       ELSE WsFinally(c)
    /\ UNCHANGED <<texts, bcFrame>>

(***************************************************************************)
(* broadcast_message (api.py:1019-1031)                                    *)
(***************************************************************************)
\* next() of the set iterator taken over the live connected_clients, followed
\* by the call of send_text on the entry it yields.
BroadcastNext(S, remaining) ==
    IF itUsed' # Cardinality(S)
    THEN /\ bcPc' = "raised"      \* RuntimeError: Set changed size during iteration
         /\ bcCur' = NoClient
         /\ itRemaining' = {}
    ELSE IF remaining = {}
    THEN /\ bcPc' = "returned"
         /\ bcCur' = NoClient
         /\ itRemaining' = {}
    ELSE \E c \in remaining :
         /\ bcPc' = "sending"
         /\ bcCur' = c
         /\ itRemaining' = remaining \ {c}

BroadcastStart(message_data) ==
    /\ UNCHANGED anVars
    /\ bcPc = "idle"
    /\ bcId < MaxBroadcasts
    /\ message_data = bcId + 1
    /\ bcId' = bcId + 1
    /\ bcData' = message_data
    /\ bcLog' = EmptyLog
    /\ bcStart' = connected_clients
    /\ bcDisturbed' = FALSE
    /\ itUsed' = Cardinality(connected_clients)
    /\ BroadcastNext(connected_clients, connected_clients)
    /\ UNCHANGED <<connected_clients, wsPc, texts, owed, prevFailed>>

BroadcastSendDone(ok) ==
    /\ UNCHANGED anVars
    /\ bcPc = "sending"
    /\ bcLog' = [bcLog EXCEPT ![bcCur] = [calls |-> @.calls + 1,
                                          ok |-> @.ok + (IF ok THEN 1 ELSE 0),
                                          frame |-> MessageEvent(bcData)]]
    /\ UNCHANGED <<itUsed, bcId, bcData, bcStart, bcDisturbed, prevFailed, wsPc, texts, owed>>
    /\ IF ok
       THEN /\ UNCHANGED connected_clients
            /\ BroadcastNext(connected_clients, itRemaining)
       ELSE LET h == BroadcastExcept(connected_clients, bcCur) IN
            /\ connected_clients' = h.registry
            /\ IF h.outcome = "raise"
               THEN /\ bcPc' = "raised"
                    /\ bcCur' = NoClient
                    /\ itRemaining' = {}
               ELSE BroadcastNext(h.registry, itRemaining \cap h.registry)

\* The caller of broadcast_message continues after its return or exception.
BroadcastReturn ==
    /\ UNCHANGED anVars
    /\ bcPc \in {"returned", "raised"}
    /\ bcPc' = "idle"
    /\ bcData' = 0
    /\ bcLog' = EmptyLog
    /\ bcStart' = {}
    /\ bcDisturbed' = FALSE
    /\ itUsed' = 0
    /\ prevFailed' = (prevFailed \cup FailedIn(bcLog)) \cap connected_clients
    /\ UNCHANGED <<connected_clients, wsPc, texts, owed, bcId, bcCur, itRemaining>>

WsNext ==
    \/ \E c \in Clients : WsAccept(c)
    \/ \E c \in Clients : WsAcceptFail(c)
    \/ \E c \in Clients : WsReceiveText(c)
    \/ \E c \in Clients : WsReceiveFail(c)
    \/ \E c \in Clients, ok \in BOOLEAN : WsSendPong(c, ok)
    \/ \E p \in Payloads : BroadcastStart(p)
    \/ \E ok \in BOOLEAN : BroadcastSendDone(ok)
    \/ BroadcastReturn

SpecWs == Init /\ [][WsNext]_vars

\* The peer closes the connection while the handler is suspended in
\* receive_text() or send_text(): the awaited call will raise (a send
\* already handed to the transport may still complete first) once the
\* event loop resumes the handler.
WsPeerClose(c) ==
    /\ UNCHANGED anVars
    /\ LoopFree
    /\ wsPc[c] \in {"receiving", "ponging"}
    /\ wsPc' = [wsPc EXCEPT ![c] = IF wsPc[c] = "receiving" THEN "receiving_hungup"
                                    ELSE "ponging_hungup"]
    /\ UNCHANGED <<connected_clients, texts, owed, bcFrame, itRemaining, bcDisturbed,
                   prevFailed>>

\* The event loop resumes a handler whose peer has closed the connection
WsResume(c) ==
    \/ wsPc[c] = "receiving_hungup" /\ WsReceiveFail(c)
    \/ wsPc[c] = "ponging_hungup" /\ \E ok \in BOOLEAN : WsSendPong(c, ok)

WsFairNext ==
    \/ WsNext
    \/ \E c \in Clients : WsPeerClose(c)

\* The liveness specification follows the first NumFairClients listeners:
\* the handshakes of the others have failed.
FairInit ==
    /\ connected_clients = {}
    /\ wsPc = [c \in Clients |-> IF c <= NumFairClients THEN "accepting" ELSE "rejected"]
    /\ texts = 0
    /\ owed = [c \in Clients |-> 0]
    /\ bcPc = "idle"
    /\ bcId = 0
    /\ bcData = 0
    /\ bcCur = NoClient
    /\ itUsed = 0
    /\ itRemaining = {}
    /\ bcLog = EmptyLog
    /\ bcStart = {}
    /\ bcDisturbed = FALSE
    /\ prevFailed = {}
    /\ anPc = "idle"
    /\ request = NoRequest
    /\ store = [kind |-> "ok", messages |-> <<>>]
    /\ llm = "ok"
    /\ response = NoResponse
    /\ clock = <<>>

\* asyncio runs every ready task: a handler whose awaited call has an
\* outcome is resumed, and so is the caller of a finished broadcast.
SpecWsFair ==
    /\ FairInit
    /\ [][WsFairNext]_vars
    /\ WF_vars(BroadcastReturn)
    /\ \A c \in Clients : WF_vars(WsResume(c))

(***************************************************************************)
(* claude.py                                                               *)
(***************************************************************************)
NoMessagesText == "No messages found for the specified criteria."

\* The prompt of analyze_messages (claude.py:73-79): the period, the text
\* _format_messages_for_claude makes of `messages`, and the query
Prompt(messages, query, period) ==
    [sent |-> TRUE, period |-> period, transcript_of |-> messages, query |-> query]

\* analyze_messages calling the completion capability again when it failed
claude_analyze_messages_retry(messages, query, period, env) ==
    IF env = "no_api_key"
    THEN [exc |-> "ValueError", analysis |-> "", completions |-> 0, prompt |-> NoPrompt]
    ELSE IF messages = <<>>
    THEN [exc |-> "none", analysis |-> NoMessagesText, completions |-> 0, prompt |-> NoPrompt]
    ELSE IF env = "fails"
    THEN [exc |-> "Exception", analysis |-> "", completions |-> 2,
          prompt |-> Prompt(messages, query, period)]
    ELSE IF env = "fails_value_error"
    THEN [exc |-> "ValueError", analysis |-> "", completions |-> 2,
          prompt |-> Prompt(messages, query, period)]
    ELSE [exc |-> "none", analysis |-> "completion text", completions |-> 1,
          prompt |-> Prompt(messages, query, period)]

\* analyze_messages without the `if not messages` return
claude_analyze_messages_unguarded(messages, query, period, env) ==
    IF env = "no_api_key"
    THEN [exc |-> "ValueError", analysis |-> "", completions |-> 0, prompt |-> NoPrompt]
    ELSE IF env = "fails"
    THEN [exc |-> "Exception", analysis |-> "", completions |-> 1,
          prompt |-> Prompt(messages, query, period)]
    ELSE IF env = "fails_value_error"
    THEN [exc |-> "ValueError", analysis |-> "", completions |-> 1,
          prompt |-> Prompt(messages, query, period)]
    ELSE [exc |-> "none", analysis |-> "completion text", completions |-> 1,
          prompt |-> Prompt(messages, query, period)]

\* ClaudeAnalyzer.analyze_messages (claude.py:48-98) behind the module-level
\* helper that first constructs ClaudeAnalyzer() (claude.py:16-24, 253-260).
claude_analyze_messages(messages, query, period, env) ==
    IF env = "no_api_key"
    THEN [exc |-> "ValueError", analysis |-> "", completions |-> 0, prompt |-> NoPrompt]
    ELSE IF messages = <<>>
    THEN [exc |-> "none", analysis |-> NoMessagesText, completions |-> 0, prompt |-> NoPrompt]
    ELSE IF env = "fails"
    THEN [exc |-> "Exception", analysis |-> "", completions |-> 1,
          prompt |-> Prompt(messages, query, period)]
    ELSE IF env = "fails_value_error"
    THEN [exc |-> "ValueError", analysis |-> "", completions |-> 1,
          prompt |-> Prompt(messages, query, period)]
    ELSE [exc |-> "none", analysis |-> "completion text", completions |-> 1,
          prompt |-> Prompt(messages, query, period)]

\* ClaudeAnalyzer.semantic_search (claude.py:196-249) behind the module-level
\* helper that first constructs ClaudeAnalyzer() (claude.py:299-306).
claude_semantic_search(messages, search_query, period, env) ==
    IF env = "no_api_key"
    THEN [exc |-> "ValueError", analysis |-> "", completions |-> 0, prompt |-> NoPrompt]
    ELSE IF messages = <<>>
    THEN [exc |-> "none", analysis |-> NoMessagesText, completions |-> 0, prompt |-> NoPrompt]
    ELSE IF env = "fails"
    THEN [exc |-> "Exception", analysis |-> "", completions |-> 1,
          prompt |-> Prompt(messages, search_query, period)]
    ELSE IF env = "fails_value_error"
    THEN [exc |-> "ValueError", analysis |-> "", completions |-> 1,
          prompt |-> Prompt(messages, search_query, period)]
    ELSE [exc |-> "none", analysis |-> "search text", completions |-> 1,
          prompt |-> Prompt(messages, search_query, period)]

\* Message objects as _format_messages_for_claude reads them
MessageTimes == {datetime(167, 12, 0, 0, 0)}
FormatMessages == [sender : {<<"5", "1", "@">>}, chat_name : {NoneT, <<>>, <<"A", "b">>},
                   is_from_me : BOOLEAN, media_type : MediaTypes,
                   content : {"", "hi"}, timestamp : MessageTimes]

\* msg.timestamp.strftime("%Y-%m-%d %H:%M:%S") (claude.py:34)
StrftimeSeconds == [t \in MessageTimes |-> "2024-06-15 12:00:00"]

\* str.upper on the media types used here (claude.py:38)
Upper == [s \in MediaTypes \ {None} |-> "IMAGE"]

You == <<"Y", "o", "u">>

\* The sender label with the chat name taking precedence over is_from_me
FormatSenderChatFirst(msg) ==
    IF TruthyT(msg.chat_name) THEN msg.chat_name
    ELSE IF msg.is_from_me THEN You ELSE msg.sender

\* claude.py:33
FormatSender(msg) ==
    IF msg.is_from_me THEN You
    ELSE IF TruthyT(msg.chat_name) THEN msg.chat_name ELSE msg.sender

\* claude.py:36-42
FormatContent(msg) ==
    IF Truthy(msg.media_type)
    THEN <<"[", Upper[msg.media_type], " message]">>
             \o (IF Truthy(msg.content) THEN <<": ", msg.content>> ELSE <<>>)
    ELSE <<IF Truthy(msg.content) THEN msg.content ELSE "[No content]">>

\* claude.py:44: f"[{timestamp}] {sender}: {content}", as its pieces
FormatLine(msg) ==
    <<"[", StrftimeSeconds[msg.timestamp], "] ">> \o FormatSender(msg)
        \o <<": ">> \o FormatContent(msg)

\* ClaudeAnalyzer._format_messages_for_claude (claude.py:26-46); the text is
\* given as its lines, which "\n".join puts together
format_messages_for_claude(messages) ==
    IF messages = <<>>
    THEN << <<"No messages found.">> >>
    ELSE [i \in 1..Len(messages) |-> FormatLine(messages[i])]

SummarizeQuery == "Provide a concise summary of these messages"
TopicsQuery == "Extract the main topics discussed in these messages"
SentimentQuery == "Analyze the overall sentiment of this conversation"
ActionItemsQuery == "Extract any action items, tasks, or to-dos"

(***************************************************************************)
(* analyze_query (api.py:709-802)                                          *)
(***************************************************************************)
\* api.py:736-737
DefaultBefore(before) == IF ~Truthy(before) THEN NowIso ELSE before

\* The 7-day default applied whenever `after` is absent
DefaultAfterWhenAbsent(after, before) ==
    IF ~Truthy(after) THEN WeekAgoIso ELSE after

\* api.py:738-739, evaluated after `before` has been defaulted
DefaultAfter(after, before) ==
    IF ~Truthy(after) /\ ~Truthy(before) THEN WeekAgoIso ELSE after

\* The sender filter reading only the newest message
FilterPhoneNewestOnly(messages, r) ==
    IF TruthyT(r.contact_phone)
    THEN SelectSeq(IF messages = <<>> THEN <<>> ELSE <<Head(messages)>>,
                   LAMBDA m : Contains(m.sender, r.contact_phone))
    ELSE messages

\* api.py:754-755
FilterPhone(messages, r) ==
    IF TruthyT(r.contact_phone)
    THEN SelectSeq(messages, LAMBDA m : Contains(m.sender, r.contact_phone))
    ELSE messages

\* api.py:757-758; (m.chat_name or "")
ChatNameOrEmpty(m) == IF TruthyT(m.chat_name) THEN m.chat_name ELSE <<>>

\* The name filter leaving its matches oldest first
FilterNameReversed(messages, r) ==
    IF TruthyT(r.contact_name)
    THEN LET kept == SelectSeq(messages,
                         LAMBDA m : Contains(Lower(ChatNameOrEmpty(m)),
                                             Lower(r.contact_name)))
         IN [i \in 1..Len(kept) |-> kept[Len(kept) + 1 - i]]
    ELSE messages

FilterName(messages, r) ==
    IF TruthyT(r.contact_name)
    THEN SelectSeq(messages,
             LAMBDA m : Contains(Lower(ChatNameOrEmpty(m)), Lower(r.contact_name)))
    ELSE messages

\* The media filter with the test of the summary endpoints (`not m.media_type`)
FilterMediaInverted(messages, r) ==
    IF r.media_only
    THEN SelectSeq(messages, LAMBDA m : ~Truthy(m.media_type))
    ELSE messages

\* api.py:760-761
FilterMedia(messages, r) ==
    IF r.media_only
    THEN SelectSeq(messages, LAMBDA m : Truthy(m.media_type))
    ELSE messages

\* api.py:753-761
Refine(messages, r) == FilterMedia(FilterName(FilterPhone(messages, r), r), r)

\* len() of what list_messages returned instead of what was analysed
MessagesAnalyzedFetched(messages, fetched) == Len(fetched)

\* api.py:791: messages_analyzed=len(messages)
MessagesAnalyzed(messages, fetched) == Len(messages)

\* api.py:763-769
Period(after, before) ==
    IF Truthy(after) /\ Truthy(before)
    THEN LET a == fromisoformat(after)
             b == fromisoformat(before)
         IN IF a.ok /\ b.ok
            THEN [exc |-> "none", label |-> <<a.day, "to", b.day>>]
            ELSE [exc |-> "ValueError", label |-> <<>>]
    ELSE [exc |-> "none", label |-> <<"recent messages">>]

BranchDefaultSummarize(query_type) ==
    IF query_type \in {"topics", "sentiment", "action_items", "custom"}
    THEN query_type
    ELSE "summarize"

\* A chain with semantic_search handled by the custom branch
BranchSemanticAsCustom(query_type) ==
    IF query_type \in {"summarize", "topics", "sentiment", "action_items", "custom"}
    THEN query_type
    ELSE IF query_type = "semantic_search" THEN "custom" ELSE "else"

\* The branch of the if/elif chain taken for a query_type (api.py:772-785)
Branch(query_type) ==
    IF query_type \in {"summarize", "topics", "sentiment", "action_items", "custom"}
    THEN query_type
    ELSE "else"

CustomQueryMissingNoneOnly(custom_query) == custom_query = None

\* api.py:781: `if not request.custom_query`
CustomQueryMissing(custom_query) == ~Truthy(custom_query)

\* The chain with the topics branch calling the summary helper
DispatchTopicsAsSummary(r, messages, period, env) ==
    LET b == Branch(r.query_type)
        run(query) == claude_analyze_messages(messages, query, period, env)
                          @@ [instruction |-> query]
        http400(d) == [exc |-> d, analysis |-> "", completions |-> 0, instruction |-> "",
                       prompt |-> NoPrompt]
    IN CASE b \in {"summarize", "topics"} -> run(SummarizeQuery)
         [] b = "sentiment" -> run(SentimentQuery)
         [] b = "action_items" -> run(ActionItemsQuery)
         [] b = "custom" -> IF CustomQueryMissing(r.custom_query)
                            THEN http400("custom_query required")
                            ELSE run(r.custom_query)
         [] OTHER -> http400("Unknown query_type")

\* api.py:771-785
Dispatch(r, messages, period, env) ==
    LET b == Branch(r.query_type)
        run(query) == claude_analyze_messages(messages, query, period, env)
                          @@ [instruction |-> query]
        http400(d) == [exc |-> d, analysis |-> "", completions |-> 0, instruction |-> "",
                       prompt |-> NoPrompt]
    IN CASE b = "summarize" -> run(SummarizeQuery)
         [] b = "topics" -> run(TopicsQuery)
         [] b = "sentiment" -> run(SentimentQuery)
         [] b = "action_items" -> run(ActionItemsQuery)
         [] b = "custom" -> IF CustomQueryMissing(r.custom_query)
                            THEN http400("custom_query required")
                            ELSE run(r.custom_query)
         [] OTHER -> http400("Unknown query_type")

\* The except clauses (api.py:797-802)
Failure(exc, call) ==
    [NoResponse EXCEPT
        !.status = IF exc = "Exception" THEN 500 ELSE 400,
        !.detail = IF exc = "Exception" THEN "Analysis failed" ELSE exc,
        !.list_call = call]

analyze_query_result(r, st, env) ==
    LET before == DefaultBefore(r.before)
        after == DefaultAfter(r.after, before)
        call == [made |-> TRUE, after |-> after, before |-> before,
                 limit |-> r.max_messages]
    IN IF st.kind # "ok" THEN Failure(st.kind, call)
       ELSE LET messages == Refine(st.messages, r)
                period == Period(after, before)
            IN IF period.exc # "none" THEN Failure(period.exc, call)
               ELSE LET d == Dispatch(r, messages, period.label, env)
                    IN IF d.exc # "none"
                       THEN [Failure(d.exc, call) EXCEPT
                                !.completions = d.completions,
                                !.instruction = d.instruction,
                                !.analysed = IF d.completions > 0 THEN messages ELSE <<>>,
                                !.prompt = d.prompt]
                       ELSE [status |-> 200, detail |-> "",
                             query_type |-> r.query_type,
                             period |-> period.label,
                             messages_analyzed |-> MessagesAnalyzed(messages, st.messages),
                             analysis |-> d.analysis,
                             list_call |-> call,
                             instruction |-> d.instruction,
                             analysed |-> messages,
                             completions |-> d.completions,
                             window |-> NoWindow,
                             metadata |-> NoMetadata,
                             prompt |-> d.prompt]

\* One POST /analyze/query: the handler has no await, so it runs to its
\* response in one step of the event loop.
AnalyzeQuery(r, st, env) ==
    /\ anPc = "idle"
    /\ anPc' = "done"
    /\ request' = r
    /\ store' = st
    /\ llm' = env
    /\ response' = analyze_query_result(r, st, env)
    /\ clock' = IF ~Truthy(r.before) THEN <<IsoInstants[NowIso]>> ELSE <<>>
    /\ UNCHANGED wsVars

(***************************************************************************)
(* daily_summary (api.py:805-864), contact_summary (api.py:867-927)        *)
(***************************************************************************)
SummaryLimit == 200

\* The media filter applied when include_media is set
FilterNoMediaWhenIncluded(messages, include_media) ==
    IF include_media
    THEN SelectSeq(messages, LAMBDA m : ~Truthy(m.media_type))
    ELSE messages

\* api.py:842-843, api.py:900-901
FilterNoMedia(messages, include_media) ==
    IF ~include_media
    THEN SelectSeq(messages, LAMBDA m : ~Truthy(m.media_type))
    ELSE messages

\* `except Exception` of the summary and search endpoints (api.py:863-864,
\* 926-927, 984-985): every failure is answered 500.
Failure500(call, completions, instruction, analysed, prompt) ==
    [NoResponse EXCEPT
        !.status = 500,
        !.detail = "failed",
        !.list_call = call,
        !.completions = completions,
        !.instruction = instruction,
        !.analysed = analysed,
        !.prompt = prompt]

\* Summarize and wrap the result (api.py:845-859, 904-922)
Summarized(query_type, label, call, fetched, include_media, env) ==
    LET messages == FilterNoMedia(fetched, include_media)
        d == claude_analyze_messages(messages, SummarizeQuery, label, env)
    IN IF d.exc # "none"
       THEN Failure500(call, d.completions, SummarizeQuery,
                       IF d.completions > 0 THEN messages ELSE <<>>, d.prompt)
       ELSE [status |-> 200, detail |-> "",
             query_type |-> query_type,
             period |-> label,
             messages_analyzed |-> Len(messages),
             analysis |-> d.analysis,
             list_call |-> call,
             instruction |-> SummarizeQuery,
             analysed |-> messages,
             completions |-> d.completions,
             window |-> NoWindow,
             metadata |-> [include_media |-> include_media,
                           message_count |-> Len(messages)],
             prompt |-> d.prompt]

\* The day's start by a replace() that leaves the microsecond alone
DayStartKeepMicrosecond(t) == [t EXCEPT !.hour = 0, !.minute = 0, !.second = 0]

\* api.py:829: target_date.replace(hour=0, minute=0, second=0, microsecond=0)
DayStart(t) == [t EXCEPT !.hour = 0, !.minute = 0, !.second = 0, !.microsecond = 0]

\* api.py:830
DayEnd(t) == [t EXCEPT !.hour = 23, !.minute = 59, !.second = 59,
                       !.microsecond = 999999]

\* api.py:818-864; `now` is what datetime.now() returns at api.py:826
daily_summary_result(r, st, env, now) ==
    LET valid == ~Truthy(r.date) \/ IsoValid(r.date)
        target_date == IF Truthy(r.date) THEN IsoInstants[r.date] ELSE now
    IN IF ~valid THEN Failure500(NoCall, 0, "", <<>>, NoPrompt)
       ELSE LET window == [resolved |-> TRUE, start |-> DayStart(target_date),
                           end |-> DayEnd(target_date)]
                call == [made |-> TRUE, after |-> isoformat(window.start),
                         before |-> isoformat(window.end), limit |-> SummaryLimit]
            IN IF st.kind # "ok"
               THEN [Failure500(call, 0, "", <<>>, NoPrompt) EXCEPT !.window = window]
               ELSE [Summarized("daily_summary", <<strftime(target_date)>>, call,
                                st.messages, r.include_media, env)
                        EXCEPT !.window = window]

\* api.py:909: messages[0].chat_name if messages and messages[0].chat_name else jid
ContactName(messages, jid) ==
    IF messages # <<>> /\ TruthyT(messages[1].chat_name)
    THEN messages[1].chat_name
    ELSE jid

\* api.py:884-927; `now1` and `now2` are what datetime.now() returns at
\* api.py:886 and at api.py:887
contact_summary_result(r, st, env, now1, now2) ==
    LET window == [resolved |-> TRUE, start |-> MinusDays(now2, r.days), end |-> now1]
        call == [made |-> TRUE, after |-> isoformat(window.start),
                 before |-> isoformat(window.end), limit |-> SummaryLimit]
        label == <<"last", r.days, "days">>
    IN IF st.kind # "ok"
       THEN [Failure500(call, 0, "", <<>>, NoPrompt) EXCEPT !.window = window]
       ELSE LET a == Summarized("contact_summary", label, call, st.messages,
                                r.include_media, env)
                contact_name == ContactName(a.analysed, r.jid)
            IN IF a.status # 200 THEN [a EXCEPT !.window = window]
               ELSE [a EXCEPT !.window = window,
                              !.period = <<contact_name>> \o label,
                              !.metadata = [contact_jid |-> r.jid,
                                            contact_name |-> contact_name,
                                            days_lookback |-> r.days,
                                            message_count |-> Len(a.analysed)]]

DailySummary(r, st, env, now) ==
    /\ anPc = "idle"
    /\ anPc' = "daily_done"
    /\ request' = r
    /\ store' = st
    /\ llm' = env
    /\ response' = daily_summary_result(r, st, env, now)
    /\ clock' = IF Truthy(r.date) THEN <<>> ELSE <<now>>
    /\ UNCHANGED wsVars

ContactSummary(r, st, env, now1, now2) ==
    /\ anPc = "idle"
    /\ anPc' = "contact_done"
    /\ NotAfter(now1, now2)
    /\ request' = r
    /\ store' = st
    /\ llm' = env
    /\ response' = contact_summary_result(r, st, env, now1, now2)
    /\ clock' = <<now1, now2>>
    /\ UNCHANGED wsVars

(***************************************************************************)
(* semantic_search_endpoint (api.py:930-985)                               *)
(***************************************************************************)
\* api.py:966-975: a date that does not parse only changes the label
SearchPeriod(after, before) ==
    IF Truthy(after) /\ Truthy(before)
    THEN LET a == fromisoformat(after)
             b == fromisoformat(before)
         IN IF a.ok /\ b.ok THEN <<a.day, "to", b.day>> ELSE <<"recent messages">>
    ELSE <<"recent messages">>

semantic_search_result(r, st, env) ==
    LET call == [made |-> TRUE, after |-> r.after, before |-> r.before,
                 limit |-> r.max_messages]
    IN IF r.search_query = None
       THEN [NoResponse EXCEPT !.status = 422, !.detail = "search_query: field required"]
       ELSE IF st.kind # "ok" THEN Failure500(call, 0, "", <<>>, NoPrompt)
       ELSE IF st.messages = <<>>
       THEN [status |-> 200, detail |-> "",
             query_type |-> "search",
             period |-> <<"no messages">>,
             messages_analyzed |-> 0,
             analysis |-> NoMessagesText,
             list_call |-> call,
             instruction |-> "",
             analysed |-> <<>>,
             completions |-> 0,
             window |-> NoWindow,
             metadata |-> NoMetadata,
             prompt |-> NoPrompt]
       ELSE LET period == SearchPeriod(r.after, r.before)
                d == claude_semantic_search(st.messages, r.search_query, period, env)
            IN IF d.exc # "none"
               THEN Failure500(call, d.completions, r.search_query,
                               IF d.completions > 0 THEN st.messages ELSE <<>>,
                               d.prompt)
               ELSE [status |-> 200, detail |-> "",
                     query_type |-> "search",
                     period |-> period,
                     messages_analyzed |-> Len(st.messages),
                     analysis |-> d.analysis,
                     list_call |-> call,
                     instruction |-> r.search_query,
                     analysed |-> st.messages,
                     completions |-> d.completions,
                     window |-> NoWindow,
                     metadata |-> NoMetadata,
                     prompt |-> d.prompt]

SemanticSearch(r, st, env) ==
    /\ anPc = "idle"
    /\ anPc' = "search_done"
    /\ request' = r
    /\ store' = st
    /\ llm' = env
    /\ response' = semantic_search_result(r, st, env)
    /\ clock' = <<>>
    /\ UNCHANGED wsVars

AnNext ==
    /\ anPc = "idle"
    /\ \/ \E r \in Requests : \E st \in StoreOutcomes(r) : \E env \in LlmStates :
              AnalyzeQuery(r, st, env)
       \/ \E r \in DailyRequests : \E st \in SummaryStoreOutcomes : \E env \in LlmStates :
              \E now \in ClockInstants : DailySummary(r, st, env, now)
       \/ \E r \in ContactRequests : \E st \in SummaryStoreOutcomes : \E env \in LlmStates :
              \E now1, now2 \in ClockInstants : ContactSummary(r, st, env, now1, now2)
       \/ \E r \in SearchRequests : \E st \in StoreOutcomes(r) : \E env \in LlmStates :
              SemanticSearch(r, st, env)

SpecAn == Init /\ [][AnNext]_vars

(***************************************************************************)
(* The in-memory refinement of analyze_query on its own (api.py:753-761):  *)
(* any criteria, any sequence list_messages returned.                      *)
(***************************************************************************)
RefineInit ==
    /\ WsInit
    /\ anPc = "refine"
    /\ request \in RefineCriteria
    /\ store \in {[kind |-> "ok", messages |-> m] :
                     m \in SeqsUpTo(Messages, request.max_messages)}
    /\ llm = "ok"
    /\ response = NoResponse
    /\ clock = <<>>

ApplyRefine ==
    /\ anPc = "refine"
    /\ anPc' = "refined"
    /\ response' = [NoResponse EXCEPT !.analysed = Refine(store.messages, request)]
    /\ UNCHANGED <<request, store, llm, clock, wsVars>>

SpecRefine == RefineInit /\ [][ApplyRefine]_vars

(***************************************************************************)
(* _format_messages_for_claude on its own (claude.py:26-46): any sequence  *)
(* of messages formatted twice; response.analysis collects the texts.      *)
(***************************************************************************)
FormatInit ==
    /\ WsInit
    /\ anPc = "format"
    /\ request = NoRequest
    /\ store \in {[kind |-> "ok", messages |-> m] : m \in SeqsUpTo(FormatMessages, MaxMsgs)}
    /\ llm = "ok"
    /\ response = [NoResponse EXCEPT !.analysis = <<>>]
    /\ clock = <<>>

FormatCall ==
    /\ anPc \in {"format", "formatted"}
    /\ anPc' = IF anPc = "format" THEN "formatted" ELSE "formatted_again"
    /\ response' = [response EXCEPT
                       !.analysis = Append(@, format_messages_for_claude(store.messages)),
                       !.analysed = store.messages]
    /\ UNCHANGED <<request, store, llm, clock, wsVars>>

SpecFormat == FormatInit /\ [][FormatCall]_vars

TypeOK ==
    /\ connected_clients \subseteq Clients
    /\ bcPc \in {"idle", "sending", "returned", "raised"}

(***************************************************************************)
(* Properties of the realtime registry and broadcaster                     *)
(***************************************************************************)

\* C1: a broadcast over N registered connections (registry not changed by
\* a handler meanwhile) in which exactly one send_text fails does not raise,
\* and, once returned, has completed exactly one successful send to each of
\* the other N-1 connections.
C1_BroadcastIsolatesFailure ==
    (bcPc # "idle" /\ ~bcDisturbed) =>
        /\ bcPc # "raised"
        /\ (bcPc = "returned" /\ Cardinality(FailedIn(bcLog)) = 1) =>
               \A c \in bcStart \ FailedIn(bcLog) :
                   bcLog[c].calls = 1 /\ bcLog[c].ok = 1

\* C1 witness: three registered connections, the first send fails, the two
\* later ones succeed and the broadcast has returned.
C1_Witness ==
    /\ bcPc = "returned" /\ ~bcDisturbed
    /\ Cardinality(bcStart) = 3
    /\ Cardinality(FailedIn(bcLog)) = 1
    /\ Cardinality({c \in bcStart : bcLog[c].ok = 1}) = 2

\* C2: a broadcast never ends by raising, and when it returns it has
\* attempted delivery to every connection registered at its start that is
\* still registered.
C2_BroadcastSafeUnderChurn ==
    /\ bcPc # "raised"
    /\ bcPc = "returned" =>
           \A c \in bcStart \cap connected_clients : bcLog[c].calls >= 1

\* C3: a returned broadcast during which no handler changed the registry
\* made exactly one send_text call per registered connection, none to any
\* other, each carrying {type: "message", data: message_data}.
C3_OneAttemptPerRegistered ==
    (bcPc = "returned" /\ ~bcDisturbed) =>
        /\ CallsIn(bcLog) = Cardinality(bcStart)
        /\ \A c \in Clients :
               /\ bcLog[c].calls = (IF c \in bcStart THEN 1 ELSE 0)
               /\ c \in bcStart =>
                      bcLog[c].frame = [type |-> "message", data |-> bcData]

C3_Witness ==
    /\ bcPc = "returned" /\ ~bcDisturbed
    /\ Cardinality(bcStart) = 3
    /\ CallsIn(bcLog) = 3
    /\ bcData = 2

\* C4: the pong send_text calls addressed to a listener number exactly the
\* texts received from that listener, less the one whose pong is in flight:
\* one pong per text, to the listener that sent it, and none otherwise.
C4_OnePongPerText ==
    \A c \in Clients :
        owed[c] = (IF wsPc[c] = "ponging" THEN 1 ELSE 0)

\* C4 witness: a text was received and answered while two listeners were
\* connected, and both handlers are back at receive_text.
C4_Witness ==
    \E c, d \in Clients :
        /\ c # d
        /\ texts = 1
        /\ wsPc[c] = "receiving" /\ wsPc[d] = "receiving"
        /\ owed[c] = 0 /\ owed[d] = 0

\* C5: the registry is exactly the set of connections whose accept() has
\* returned and whose handler has not ended.
C5_RegistryIsLiveHandlers ==
    connected_clients = {c \in Clients : Live(c)}

C5_Witness ==
    \E c, d, e \in Clients :
        /\ connected_clients = {c} /\ Live(c)
        /\ wsPc[d] = "closed"
        /\ wsPc[e] = "rejected"

\* C6: removing a connection from the registry, present or absent, once or
\* twice, never raises and leaves every other connection's membership as
\* it was; the second removal changes nothing.
C6_DiscardIdempotent ==
    \A c \in Clients :
        LET r1 == SetDiscard(connected_clients, c)
            r2 == SetDiscard(r1.set, c)
        IN  /\ ~r1.raised /\ ~r2.raised
            /\ r2.set = r1.set
            /\ c \notin r1.set
            /\ \A d \in Clients \ {c} :
                   (d \in r1.set) <=> (d \in connected_clients)

C6_Witness ==
    \E c, d \in Clients :
        /\ c # d
        /\ wsPc[c] = "closed" /\ c \notin connected_clients
        /\ d \in connected_clients

\* C7: broadcast_message leaves the registry as it found it, failed sends
\* included, and a connection whose send failed in an earlier broadcast is
\* attempted again by the next one.
C7_BroadcastKeepsRegistry ==
    /\ (bcPc # "idle" /\ ~bcDisturbed) => connected_clients = bcStart
    /\ (bcPc = "returned" /\ ~bcDisturbed) =>
           \A c \in prevFailed \cap connected_clients : bcLog[c].calls >= 1

C7_Witness ==
    /\ bcPc = "returned" /\ ~bcDisturbed /\ bcId = 2
    /\ \E c \in prevFailed : c \in connected_clients /\ bcLog[c].calls = 1

\* C8 as stated: once a send to a connection has failed, the connection is
\* not in the registry when the broadcast returns.
C8_FailedListenerDropped ==
    bcPc = "returned" => \A c \in FailedIn(bcLog) : c \notin connected_clients

\* C8 amended: a failed send does not drop the connection; it is still in
\* the registry when the broadcast has returned, unless its own handler has
\* ended.
C8_FailedListenerRetained ==
    bcPc = "returned" =>
        \A c \in FailedIn(bcLog) : Live(c) => c \in connected_clients

C8_Witness ==
    /\ bcPc = "returned"
    /\ \E c \in FailedIn(bcLog) : c \in connected_clients /\ bcLog[c].ok = 0

(***************************************************************************)
(* Properties of /analyze/query                                            *)
(***************************************************************************)

\* C9 as stated: a query_type outside the closed set always ends in HTTP 400
\* with the invalid-query-type error, for every message sequence the store
\* returns and whatever the other request fields are.
C9_UnknownTypeRejected ==
    (anPc = "done" /\ request.query_type \notin ClosedQueryTypes
                   /\ store.kind = "ok") =>
        /\ response.status = 400
        /\ response.detail = "Unknown query_type"

\* C9 amended: such a request always ends in HTTP 400 without a completion
\* call, and the error is the invalid-query-type error whenever the supplied
\* after/before are well-formed ISO-8601 (a malformed one is reported
\* instead).
C9_UnknownTypeRejectedOnValidDates ==
    (anPc = "done" /\ request.query_type \notin ClosedQueryTypes
                   /\ store.kind # "Exception") =>
        /\ response.status = 400
        /\ response.completions = 0
        /\ WellFormedDates(request) => response.detail = "Unknown query_type"

C9_Witness ==
    /\ anPc = "done" /\ request.query_type = "bogus"
    /\ store.kind = "ok" /\ Len(store.messages) = 2
    /\ request.after # None /\ request.before # None
    /\ llm = "ok"
    /\ response.status = 400 /\ response.detail = "Unknown query_type"

\* C10 as stated: query_type = custom with an absent or empty custom_query
\* always ends in HTTP 400 with the missing-parameter error, for every message
\* sequence the store returns, and a custom request with a non-empty
\* custom_query never gets that error.
C10_CustomNeedsQuery ==
    (anPc = "done" /\ request.query_type = "custom" /\ store.kind = "ok") =>
        IF Truthy(request.custom_query)
        THEN response.detail # "custom_query required"
        ELSE response.status = 400 /\ response.detail = "custom_query required"

\* C10 amended: such a request always ends in HTTP 400 without a completion
\* call, with the missing-parameter error whenever the supplied after/before
\* are well-formed ISO-8601; a non-empty custom_query never gets that error.
C10_CustomNeedsQueryOnValidDates ==
    (anPc = "done" /\ request.query_type = "custom" /\ store.kind # "Exception") =>
        IF Truthy(request.custom_query)
        THEN response.detail # "custom_query required"
        ELSE /\ response.status = 400
             /\ response.completions = 0
             /\ WellFormedDates(request) => response.detail = "custom_query required"

C10_Witness ==
    /\ anPc = "done" /\ request.query_type = "custom" /\ request.custom_query = ""
    /\ store.kind = "ok" /\ Len(store.messages) = 2
    /\ llm = "ok"
    /\ response.status = 400 /\ response.detail = "custom_query required"

\* The five query types analyze_query has a branch for (api.py:772-780)
DispatchedQueryTypes == {"summarize", "topics", "sentiment", "action_items", "custom"}

C12_NoCompletionOnEmpty ==
    /\ (anPc = "done" /\ store.kind = "ok" /\ response.completions # 0) =>
           Refine(store.messages, request) # <<>>
    /\ (anPc \in {"daily_done", "contact_done"} /\ store.kind = "ok"
           /\ FilterNoMedia(store.messages, request.include_media) = <<>>) =>
           response.completions = 0
    /\ (anPc = "search_done" /\ store.kind = "ok" /\ store.messages = <<>>) =>
           response.completions = 0

\* C12 witness: a daily summary whose two retrieved messages are both media
\* and are filtered out, answered without a call while the capability is down.
C12_Witness ==
    /\ anPc = "daily_done" /\ ~request.include_media
    /\ store.kind = "ok" /\ Len(store.messages) = 2
    /\ llm = "fails"
    /\ response.status = 200 /\ response.messages_analyzed = 0
    /\ response.analysis = NoMessagesText
    /\ response.completions = 0

\* C13: with an empty filtered sequence and query_type = summarize,
\* /analyze/query answers successfully with messages_analyzed = 0 and the
\* no-messages text, in every state of the completion capability.
C13_EmptySummarizeSucceeds ==
    (anPc = "done" /\ request.query_type = "summarize"
                   /\ store.kind = "ok" /\ WellFormedDates(request)
                   /\ Refine(store.messages, request) = <<>>) =>
        /\ response.status = 200
        /\ response.messages_analyzed = 0
        /\ response.analysis = NoMessagesText

\* C14 as stated: at most one completion call per request; exactly one when
\* the query type is valid, its required parameter is present and the
\* filtered sequence is non-empty (the request's dates being well-formed);
\* none when the request is rejected for its query type or its missing
\* custom_query.
C14_OneCompletionWhenValid ==
    (anPc = "done" /\ store.kind = "ok") =>
        /\ response.completions <= 1
        /\ (/\ request.query_type \in DispatchedQueryTypes
            /\ request.query_type = "custom" => Truthy(request.custom_query)
            /\ WellFormedDates(request)
            /\ Refine(store.messages, request) # <<>>) =>
               response.completions = 1
        /\ response.detail \in {"Unknown query_type", "custom_query required"} =>
               response.completions = 0

\* C14 amended: at most one completion call per analysis request, on every
\* endpoint.  On /analyze/query: exactly one when the query type is one of
\* the five dispatched, its custom_query is present when required, the
\* supplied dates are well-formed, the API key is set and the filtered
\* sequence is non-empty; none when the request is answered 400 for its
\* query type, its custom_query, a malformed date or a missing API key (a
\* 400 that reports a ValueError raised by the completion call follows one
\* call).
C14_OneCompletionWhenDispatched ==
    /\ anPc # "idle" => response.completions <= 1
    /\ (anPc = "done" /\ store.kind = "ok") =>
        /\ (/\ request.query_type \in DispatchedQueryTypes
            /\ request.query_type = "custom" => Truthy(request.custom_query)
            /\ WellFormedDates(request)
            /\ llm # "no_api_key"
            /\ Refine(store.messages, request) # <<>>) =>
               response.completions = 1
        /\ (response.status = 400 /\ llm # "fails_value_error") =>
               response.completions = 0

C14_Witness ==
    /\ anPc = "done" /\ request.query_type = "custom"
    /\ request.custom_query = "What was decided?"
    /\ store.kind = "ok" /\ Len(response.analysed) = 2
    /\ llm = "ok"
    /\ response.status = 200 /\ response.completions = 1

\* C15: when the completion capability fails on a request (its call raises,
\* or it cannot be constructed), the request ends with a 5xx response and at
\* most one completion call.
C15_CompletionFailureIs5xx ==
    LET reached == /\ store.kind = "ok"
                   /\ Period(response.list_call.after, response.list_call.before).exc = "none"
                   /\ Branch(request.query_type) # "else"
                   /\ request.query_type = "custom" => ~CustomQueryMissing(request.custom_query)
    IN (anPc = "done" /\ reached
           /\ \/ llm = "no_api_key"
              \/ (llm \in {"fails", "fails_value_error"} /\ response.completions >= 1)) =>
           /\ response.status >= 500
           /\ response.completions <= 1

\* C16: in every successful result, messages_analyzed is the length of the
\* sequence handed to the analysis step, and that sequence is what filtering
\* left of the store's answer.
C16_CountIsAnalysedLength ==
    (anPc # "idle" /\ response.status = 200) =>
        /\ response.messages_analyzed = Len(response.analysed)
        /\ response.analysed =
               CASE anPc = "done" -> Refine(store.messages, request)
                 [] anPc \in {"daily_done", "contact_done"} ->
                        FilterNoMedia(store.messages, request.include_media)
                 [] OTHER -> store.messages

C16_Witness ==
    /\ anPc = "done" /\ response.status = 200
    /\ Len(store.messages) = 2
    /\ response.messages_analyzed = 1 /\ Len(response.analysed) = 1
    /\ response.completions = 1

\* C17: a request whose max_messages is zero or negative is rejected with a
\* validation error and list_messages is not called for it.
C17_NonPositiveLimitRejected ==
    ((anPc = "done" \/ (anPc = "search_done" /\ request.search_query # None))
        /\ request.max_messages <= 0) =>
        /\ ~response.list_call.made
        /\ response.status \in 400..499

\* C18: the three refinement predicates applied in any of their six orders
\* leave the same messages as the order analyze_query uses.
C18_RefineOrderIndependent ==
    anPc = "refined" =>
        LET ms == store.messages
            r == request
            P(x) == FilterPhone(x, r)
            N(x) == FilterName(x, r)
            M(x) == FilterMedia(x, r)
            used == response.analysed
        IN /\ M(N(P(ms))) = used
           /\ N(M(P(ms))) = used
           /\ M(P(N(ms))) = used
           /\ P(M(N(ms))) = used
           /\ N(P(M(ms))) = used
           /\ P(N(M(ms))) = used

\* C18 witness: all three predicates supplied, two messages retrieved, the
\* older one survives.
C18_Witness ==
    /\ anPc = "refined"
    /\ TruthyT(request.contact_phone) /\ TruthyT(request.contact_name)
    /\ request.media_only
    /\ Len(store.messages) = 2
    /\ response.analysed = <<store.messages[2]>>
    /\ store.messages[1] # store.messages[2]

\* C19: the filtered result is the first max_messages, most recent first, of
\* the stored messages that match the coarse criteria and every supplied
\* refinement predicate, whatever the store holds beyond what it returned.
C19_TruncatesAfterRefining ==
    (anPc = "done" /\ response.status = 200) =>
        \A content \in StoreContents(store, request.max_messages) :
            LET matching == Refine(content, request)
            IN response.analysed =
                   SubSeq(matching, 1, IF Len(matching) < request.max_messages
                                       THEN Len(matching) ELSE request.max_messages)

\* C20: the messages surviving refinement are exactly the retrieved ones
\* that satisfy every supplied predicate: sender contains the phone
\* fragment, chat name (when there is one) contains the name fragment
\* without regard to case, media_type present when media_only.
C20_SurvivorsSatisfyAll ==
    anPc = "refined" =>
        LET satisfies(m) ==
                /\ TruthyT(request.contact_phone) =>
                       Contains(m.sender, request.contact_phone)
                /\ TruthyT(request.contact_name) =>
                       /\ m.chat_name # NoneT
                       /\ Contains(Lower(m.chat_name), Lower(request.contact_name))
                /\ request.media_only => m.media_type # None
        IN response.analysed = SelectSeq(store.messages, satisfies)

\* C20 witness: a name fragment "aB" kept the message of chat "Ab" and
\* dropped one with no chat name.
C20_Witness ==
    /\ anPc = "refined"
    /\ request.contact_name = <<"a", "B">>
    /\ Len(store.messages) = 2
    /\ store.messages[1].chat_name = NoneT
    /\ store.messages[2].chat_name = <<"A", "b">>
    /\ response.analysed = <<store.messages[2]>>

\* C21: a request giving no upper time bound is searched up to the current
\* instant; the 7-day lower default never takes effect, because it is tested
\* after the upper bound has been defaulted: the lower bound handed to the
\* store is the request's own, and a request giving neither bound is searched
\* with no lower bound and answered with the period "recent messages".
C21_LowerDefaultNeverApplies ==
    anPc = "done" =>
        /\ response.list_call.made
        /\ response.list_call.before =
               (IF Truthy(request.before) THEN request.before ELSE NowIso)
        /\ response.list_call.after = request.after
        /\ response.list_call.after # WeekAgoIso
        /\ (~Truthy(request.after) /\ ~Truthy(request.before)) =>
               /\ response.list_call.before = NowIso
               /\ ~Truthy(response.list_call.after)
               /\ response.status = 200 => response.period = <<"recent messages">>

\* C21 witness: a request with neither bound analysed two messages of the
\* store under the period "recent messages".
C21_Witness ==
    /\ anPc = "done"
    /\ request.after = None
    /\ request.before = None
    /\ response.status = 200
    /\ response.list_call.before = NowIso
    /\ response.list_call.after = None
    /\ response.period = <<"recent messages">>
    /\ Len(response.analysed) = 2

\* C22: for every reference date-time D given to /analyze/daily-summary
\* (the request's date, or the clock's reading when it gives none), the
\* resolved window starts at D's day 00:00:00.000000 and ends at D's day
\* 23:59:59.999999: end - start is 86399 seconds and 999999 microseconds and
\* both instants lie on D's calendar day, whatever time of day D carries.
C22_DayWindowExact ==
    anPc = "daily_done" =>
        /\ (~Truthy(request.date) \/ IsoValid(request.date)) => response.window.resolved
        /\ response.window.resolved =>
               LET D == IF Truthy(request.date) THEN IsoInstants[request.date]
                        ELSE clock[1]
                   w == response.window
               IN /\ w.start = datetime(D.ord, 0, 0, 0, 0)
                  /\ w.end = datetime(D.ord, 23, 59, 59, 999999)
                  /\ Minus(w.end, w.start) = timedelta(0, 86399, 999999)
                  /\ response.list_call.after = <<D.ord, 0, 0, 0>>
                  /\ response.list_call.before = <<D.ord, 23, 59, 59, 999999>>

\* C22 witness: a date carrying the last microsecond of 8 January resolved
\* to that day's window.
C22_Witness ==
    /\ anPc = "daily_done"
    /\ request.date = "2024-01-08T23:59:59.999999"
    /\ response.window.resolved
    /\ response.window.start = datetime(8, 0, 0, 0, 0)
    /\ response.window.end = datetime(8, 23, 59, 59, 999999)
    /\ response.status = 200

\* C23: the lookback window of /analyze/contact-summary ends at the current
\* instant at call time (the handler's first reading of the clock) and
\* starts exactly days*86400 seconds before its end, also when the clock
\* advances between the handler's readings.
C23_LookbackExact ==
    anPc = "contact_done" =>
        /\ response.window.end = clock[1]
        /\ Minus(response.window.end, response.window.start) =
               timedelta(request.days, 0, 0)

\* C24: a negative days value given to /analyze/contact-summary is answered
\* with a client error before any retrieval, and the store is never queried
\* with a window whose start is later than its end.
C24_NegativeDaysRejected ==
    anPc = "contact_done" =>
        /\ request.days < 0 =>
               /\ ~response.list_call.made
               /\ response.status \in 400..499
        /\ response.list_call.made =>
               NotAfter(response.window.start, response.window.end)

\* C25: _format_messages_for_claude returns the sentinel "No messages
\* found." for the empty sequence; for a non-empty sequence it yields one
\* line per message, in input order, whose sender is "You" when is_from_me,
\* else the chat display name when present, else the raw sender; a second
\* call on the same sequence returns the same text and the messages are as
\* they were.
C25_FormatSentinelAndSender ==
    anPc \in {"formatted", "formatted_again"} =>
        /\ \A k \in 1..Len(response.analysis) :
               LET text == response.analysis[k]
               IN IF store.messages = <<>>
                  THEN text = << <<"No messages found.">> >>
                  ELSE /\ Len(text) = Len(store.messages)
                       /\ \A i \in 1..Len(text) :
                              LET m == store.messages[i]
                                  who == IF m.is_from_me THEN You
                                         ELSE IF m.chat_name \notin {NoneT, <<>>}
                                              THEN m.chat_name
                                              ELSE m.sender
                              IN /\ SubSeq(text[i], 1, 3) =
                                        <<"[", "2024-06-15 12:00:00", "] ">>
                                 /\ SubSeq(text[i], 4, 3 + Len(who)) = who
                                 /\ text[i][4 + Len(who)] = ": "
                                 /\ Len(text[i]) > 4 + Len(who)
        /\ anPc = "formatted_again" =>
               /\ Len(response.analysis) = 2
               /\ response.analysis[1] = response.analysis[2]
        /\ response.analysed = store.messages

\* C25 witness: two messages formatted twice, the first sent by the user in
\* a named chat, the second received in a chat with an empty name.
C25_Witness ==
    /\ anPc = "formatted_again"
    /\ Len(store.messages) = 2
    /\ store.messages[1].is_from_me /\ store.messages[1].chat_name = <<"A", "b">>
    /\ ~store.messages[2].is_from_me /\ store.messages[2].chat_name = <<>>
    /\ Len(response.analysis[2]) = 2

\* C26: every connection whose peer disconnects, or whose receive or pong
\* send fails, is eventually removed from the registry and not added again:
\* with every ready handler resumed, its handler eventually reaches its
\* end; a handler at its end stays there, its connection is neither in the
\* registry nor ahead of a running iteration over it, and no send to it is
\* begun.  So from the failure on the registry eventually, and from then on
\* always, does not contain the connection.
Disconnected(c) == wsPc[c] \in {"receiving_hungup", "ponging_hungup", "closed"}

C26_DisconnectedEventuallyGone ==
    /\ \A c \in 1..NumFairClients : Disconnected(c) ~> (wsPc[c] = "closed")
    /\ [](\A c \in Clients :
              wsPc[c] = "closed" => c \notin connected_clients /\ c \notin itRemaining)
    /\ [][\A c \in Clients :
              wsPc[c] = "closed" =>
                  /\ wsPc'[c] = "closed"
                  /\ bcCur # c => bcCur' # c]_vars

\* C26 witness: a listener whose peer hung up during its pong has been
\* resumed and removed while another listener stays registered.
C26_Witness ==
    \E c, d \in Clients :
        /\ wsPc[c] = "closed"
        /\ owed[c] = 0 /\ texts > 0
        /\ c \notin connected_clients
        /\ wsPc[d] = "receiving_hungup"
        /\ d \in connected_clients

\* C28: the dispatcher of analyze_query gives each query type its own
\* instruction: summarize, topics, sentiment and action_items each a fixed
\* instruction of their own, whatever custom_query holds, and custom the
\* caller's custom_query unchanged; whenever a prompt is sent to the
\* completion capability it carries that instruction, the period label and
\* the transcript of exactly the refined messages.
C28_DispatcherInstructions ==
    /\ Cardinality({SummarizeQuery, TopicsQuery, SentimentQuery, ActionItemsQuery}) = 4
    /\ anPc = "done" =>
           /\ response.prompt.sent <=> response.completions > 0
           /\ response.prompt.sent =>
                  /\ response.prompt.query =
                         (CASE request.query_type = "summarize" -> SummarizeQuery
                            [] request.query_type = "topics" -> TopicsQuery
                            [] request.query_type = "sentiment" -> SentimentQuery
                            [] request.query_type = "action_items" -> ActionItemsQuery
                            [] request.query_type = "custom" -> request.custom_query
                            [] OTHER -> "")
                  /\ response.prompt.query = response.instruction
                  /\ response.prompt.period =
                         (IF Truthy(request.after)
                          THEN <<IsoDays[request.after], "to",
                                 IsoDays[IF Truthy(request.before) THEN request.before
                                         ELSE NowIso]>>
                          ELSE <<"recent messages">>)
                  /\ response.prompt.transcript_of = Refine(store.messages, request)

\* C28 witness: a topics request carrying a custom_query was sent with the
\* topics instruction, the period of its two dates and the one message of
\* two that passed the media filter.
C28_Witness ==
    /\ anPc = "done"
    /\ request.query_type = "topics"
    /\ request.custom_query = "What was decided?"
    /\ request.media_only
    /\ response.status = 200
    /\ response.prompt.sent
    /\ response.prompt.query = TopicsQuery
    /\ response.prompt.period = <<"2024-01-01", "to", "2024-01-08">>
    /\ Len(store.messages) = 2
    /\ Len(response.prompt.transcript_of) = 1

\* a is b with some of its elements left out: same elements, same order
RECURSIVE IsSubsequence(_, _)
IsSubsequence(a, b) ==
    IF a = <<>> THEN TRUE
    ELSE IF b = <<>> THEN FALSE
    ELSE IF Head(a) = Head(b) THEN IsSubsequence(Tail(a), Tail(b))
    ELSE IsSubsequence(a, Tail(b))

C30_MediaExcludedAndCounted ==
    (anPc \in {"daily_done", "contact_done"}
        /\ (response.status = 200 \/ response.completions > 0)) =>
        /\ ~request.include_media =>
               /\ \A i \in 1..Len(response.analysed) :
                      response.analysed[i].media_type = None
               /\ response.analysed =
                      SelectSeq(store.messages, LAMBDA m : m.media_type = None)
        /\ request.include_media => response.analysed = store.messages
        /\ response.status = 200 =>
               /\ response.messages_analyzed = Len(response.analysed)
               /\ response.metadata.message_count = Len(response.analysed)

\* C30 witness: a contact summary without media analysed one of the two
\* retrieved messages, the other being an image, and counted one.
C30_Witness ==
    /\ anPc = "contact_done"
    /\ ~request.include_media
    /\ response.status = 200
    /\ Len(store.messages) = 2
    /\ store.messages[1].media_type = "image"
    /\ response.analysed = <<store.messages[2]>>
    /\ response.messages_analyzed = 1
    /\ response.metadata.message_count = 1
====
